---- MODULE Spec2Model ----
(***************************************************************************)
(* A model of lawcat's dense 2-D container mat<T> (src/src/mat.cpp).       *)
(*                                                                         *)
(* The caller's scope holds a few named matrix variables.  Each live       *)
(* variable is a mat object: the fields n_rows, n_cols and the pointer     *)
(* data.  The free store is modelled explicitly, because mat declares a    *)
(* destructor and nothing else: its copy constructor is the implicit,      *)
(* member-wise one, so two objects can hold the same pointer.              *)
(*                                                                         *)
(* The element type T is a signed integer type narrower than int (short):  *)
(* T + T is computed in int and converted back to T, which C++20 defines   *)
(* as reduction modulo 2^width, so arithmetic wraps and is never undefined.*)
(* The width is scaled down to ElemBits bits.                              *)
(*                                                                         *)
(* Indeterminate memory (cells never written, cells of released storage)   *)
(* is the value Undef, which stands for "any value of T": arithmetic on it *)
(* yields Undef and printing it yields the text "?".                       *)
(*                                                                         *)
(* operator+ and operator- end in "return out;" with out a local object.   *)
(* The language lets the compiler construct out directly in the caller's   *)
(* object (copy elision) but does not require it; without it the caller's  *)
(* object is made by the copy constructor and out is destroyed.  Both      *)
(* outcomes are modelled (elide).                                          *)
(*                                                                         *)
(* Spec explores one object (construct, fill, set, print, scope exit)      *)
(* exhaustively.  SpecArith starts from two operands in any state those    *)
(* operations give them and runs up to MaxOps operators, copies and scope  *)
(* exits.                                                                  *)
(***************************************************************************)
EXTENDS Integers, Sequences, FiniteSets

(* ------------------------------ bounds --------------------------------- *)

\* row counts range over 0 .. MaxRows
MaxRows == 2
\* column counts range over 0 .. MaxCols
MaxCols == 2
\* width in bits of the element type T
ElemBits == 3
\* number of distinct storage addresses the free store can hand out
MaxAddr == 3
\* number of arithmetic operations, copies and scope exits in one run
MaxOps == 2

\* the caller's matrix variables: two operands and one for results
Names == {"a", "b", "c"}
Results == {"c"}
\* the values the caller passes to fill and set
InputVals == {1, 2}
\* the source lines the caller calls print from
CallerLines == {7}
\* the caller's source file, as std::source_location reports it
CallerFile == "main.cpp"

(* -------------------------- program constants -------------------------- *)

\* the line of the throw expression, which source_location::current() reports
ThrowLine == 23
\* the file of the throw expression
ThrowFile == "mat.cpp"

(* ----------------------------- element type ---------------------------- *)

RECURSIVE Pow2(_)
Pow2(n) == IF n = 0 THEN 1 ELSE 2 * Pow2(n - 1)

Modulus == Pow2(ElemBits)
Half    == Pow2(ElemBits - 1)
Val     == (0 - Half) .. (Half - 1)
\* an indeterminate value of T (no member of Val)
Undef   == Modulus

\* conversion of an int result back to T (two's complement, modulo 2^width)
Wrap(v) == ((v + Half) % Modulus) - Half

\* this->data[i][j] + other.data[i][j], converted to T
PlusT(u, v)  == IF u = Undef \/ v = Undef THEN Undef ELSE Wrap(u + v)
\* this->data[i][j] - other.data[i][j], converted to T
MinusT(u, v) == IF u = Undef \/ v = Undef THEN Undef ELSE Wrap(u - v)

(* ------------------------------- text ---------------------------------- *)

Digit(d) == SubSeq("0123456789", d + 1, d + 1)

\* std::to_string of a size_t
RECURSIVE NatToString(_)
NatToString(n) == IF n < 10 THEN Digit(n)
                  ELSE NatToString(n \div 10) \o Digit(n % 10)

\* operator<< of std::ostream on a value of T
ValToText(v) == IF v = Undef THEN "?"
                ELSE IF v < 0 THEN "-" \o NatToString(0 - v)
                ELSE NatToString(v)

\* s occurs in t starting at position p
OccursAt(s, t, p) == /\ p >= 1
                     /\ p + Len(s) - 1 <= Len(t)
                     /\ SubSeq(t, p, p + Len(s) - 1) = s

Contains(t, s) == \E p \in 1 .. Len(t) : OccursAt(s, t, p)

StartsWith(t, s) == OccursAt(s, t, 1)

\* the positions at which s occurs in t
Occurrences(s, t) == {p \in 1 .. Len(t) : OccursAt(s, t, p)}

\* s1 occurs in t and s2 occurs after it
ContainsInOrder(t, s1, s2) ==
    \E p \in Occurrences(s1, t) : \E q \in Occurrences(s2, t) : q >= p + Len(s1)

\* the number of newline characters of t
RECURSIVE CountNewlines(_)
CountNewlines(t) == IF Len(t) = 0 THEN 0
                    ELSE (IF SubSeq(t, 1, 1) = "\n" THEN 1 ELSE 0)
                         + CountNewlines(SubSeq(t, 2, Len(t)))

(* ------------------------------- state --------------------------------- *)

VARIABLES
    mats,       \* the caller's variables: a mat object or NoMat
    heap,       \* the free store: address -> storage block
    printable,  \* whether T satisfies the concept printable
    op,         \* the operation performed last
    exc,        \* the exception the last operation threw
    msg,        \* what() of that exception
    out,        \* what the last operation wrote to std::cout
    ret,        \* what the last print returned
    fault,      \* undefined behaviour the last operation ran into
    steps       \* operations performed so far

vars == <<mats, heap, printable, op, exc, msg, out, ret, fault, steps>>

NoMat == [n_rows |-> 0, n_cols |-> 0, data |-> 0]
Addr  == 1 .. MaxAddr

Cells(r, c) == (0 .. r - 1) \X (0 .. c - 1)

\* the cells of a matrix as one value: f, the empty grid written <<>>
Grid(f) == IF DOMAIN f = {} THEN <<>> ELSE f

Unused == [status |-> "unused", cells |-> <<>>]

Live(x) == mats[x] # NoMat

\* the storage of object m has not been released
Owned(h, m) == h[m.data].status = "live"

\* the value read from this->data[i][j]
CellAt(h, m, i, j) ==
    IF Owned(h, m) /\ <<i, j>> \in DOMAIN h[m.data].cells
    THEN h[m.data].cells[<<i, j>>]
    ELSE Undef

Shape(m) == <<m.n_rows, m.n_cols>>

\* the addresses some object other than those of the variables in skip holds
Referenced(ms, skip) == {ms[n].data : n \in {k \in Names \ skip : ms[k] # NoMat}}

FreeAddrs == {p \in Addr : heap[p].status = "unused"}

\* operator new: some address not in use
NewAddr == CHOOSE p \in FreeAddrs : \A q \in FreeAddrs : p <= q

(* --------------------------- pure operations --------------------------- *)

\* mat<T>::mat: the fields of the new object, its storage at address p
NewMat(r, c, p) == [n_rows |-> r, n_cols |-> c, data |-> p]

\* the storage mat<T>::mat allocates: new T[n_cols] per row, nothing written
NewBlock(r, c) ==
    [status |-> "live", cells |-> Grid([ij \in Cells(r, c) |-> Undef])]

\* the implicit copy constructor of mat: member-wise, the pointer included
CopyConstruct(m) == [n_rows |-> m.n_rows, n_cols |-> m.n_cols, data |-> m.data]

\* fill with the inner loop stopping one column early (j < n_cols - 1)
FillCellsShort(m, old, value) ==
    Grid([ij \in Cells(m.n_rows, m.n_cols) |->
            IF ij[2] < m.n_cols - 1 THEN value ELSE old[ij]])

\* the cells after mat<T>::fill, old being the cells before
FillCells(m, old, value) ==
    Grid([ij \in Cells(m.n_rows, m.n_cols) |-> value])

\* set with its bounds checks written with > for >=
SetErrorOffByOne(m, row, col) ==
    IF row > m.n_rows \/ row < 0
    THEN "ERROR: Row lies outside the bounds of the matrix."
    ELSE IF col > m.n_cols \/ col < 0
    THEN "ERROR: Column lies outside the bounds of the matrix."
    ELSE ""

\* the exception mat<T>::set throws, "" when it throws none
SetError(m, row, col) ==
    IF row >= m.n_rows \/ row < 0
    THEN "ERROR: Row lies outside the bounds of the matrix."
    ELSE IF col >= m.n_cols \/ col < 0
    THEN "ERROR: Column lies outside the bounds of the matrix."
    ELSE ""

\* the cells after the assignment this->data[row][col] = value (a write
\* outside the storage changes none of its cells)
SetCells(old, row, col, value) ==
    IF <<row, col>> \in DOMAIN old
    THEN [old EXCEPT ![<<row, col>>] = value]
    ELSE old

\* the message check_matrix_dimensions builds
DimensionMessage(ra, ca, rb, cb) ==
    "Cannot perform addition between a " \o NatToString(ra) \o "x"
    \o NatToString(ca) \o " matrix and a " \o NatToString(rb) \o "x"
    \o NatToString(cb) \o " matrix."

\* what() of dimension_mismatch_error(message)
dimension_mismatch_error(message) ==
    message \o " at " \o ThrowFile \o ":" \o NatToString(ThrowLine) \o "."

\* check_matrix_dimensions with its two comparisons joined by && for ||
check_matrix_dimensions_both(ra, ca, rb, cb) ==
    IF ra # rb /\ ca # cb
    THEN dimension_mismatch_error(DimensionMessage(ra, ca, rb, cb))
    ELSE ""

\* what() of the exception check_matrix_dimensions throws, "" when it returns
check_matrix_dimensions(ra, ca, rb, cb) ==
    IF ra # rb \/ ca # cb
    THEN dimension_mismatch_error(DimensionMessage(ra, ca, rb, cb))
    ELSE ""

\* the sums the loops of operator+ and operator+= compute
PlusCells(h, m, o) ==
    Grid([ij \in Cells(m.n_rows, m.n_cols) |->
            PlusT(CellAt(h, m, ij[1], ij[2]), CellAt(h, o, ij[1], ij[2]))])

\* the differences the loops of operator- and operator-= compute
MinusCells(h, m, o) ==
    Grid([ij \in Cells(m.n_rows, m.n_cols) |->
            MinusT(CellAt(h, m, ij[1], ij[2]), CellAt(h, o, ij[1], ij[2]))])

\* the diagnostic of print for a type that is not printable
Diagnostic(file, line) ==
    "PRINT IGNORED (" \o file \o " -> L" \o NatToString(line) \o "):"
    \o " Provided template argument does not support the << operator with std::ostream."
    \o "\n"

\* what the loops of print write from position (i, j) on, T printable
RECURSIVE PrintFrom(_, _, _, _)
PrintFrom(h, m, i, j) ==
    IF i >= m.n_rows THEN ""
    ELSE IF j >= m.n_cols THEN PrintFrom(h, m, i + 1, 0)
    ELSE ValToText(CellAt(h, m, i, j)) \o " "
         \o (IF j = m.n_cols - 1 THEN "\n" ELSE "")
         \o PrintFrom(h, m, i, j + 1)

\* print reaches the body of its inner loop
EntersLoop(m) == 0 < m.n_rows /\ 0 < m.n_cols

\* what print writes to std::cout
PrintText(h, m, p, file, line) ==
    IF p THEN PrintFrom(h, m, 0, 0)
    ELSE IF EntersLoop(m) THEN Diagnostic(file, line) ELSE ""

\* what print returns
PrintResult(m, p) == IF p THEN TRUE ELSE ~EntersLoop(m)

\* the free store after the destructor of an object holding address p has
\* run, ms being the caller's variables afterwards
Release(h, ms, p) ==
    [h EXCEPT ![p] = IF p \in Referenced(ms, {})
                     THEN [status |-> "freed", cells |-> <<>>]
                     ELSE Unused]

\* the caller's object after return out; of operator+ and operator-: with the
\* copy elided it is out itself, otherwise a copy made by the copy constructor
ReturnedMat(o, elide) == IF elide THEN o ELSE CopyConstruct(o)

\* the free store after return out;: out's storage holds the computed cells,
\* and without elision out is destroyed once the copy is made
ReturnedHeap(h, o, cells, elide) ==
    IF elide
    THEN [h EXCEPT ![o.data] = [status |-> "live", cells |-> cells]]
    ELSE [h EXCEPT ![o.data] = [status |-> "freed", cells |-> <<>>]]

\* the free store after the cells of object m have been written; a write
\* through a pointer to released storage leaves nothing that can be relied on
Store(h, m, cells) ==
    IF Owned(h, m) THEN [h EXCEPT ![m.data].cells = cells] ELSE h

\* the undefined behaviour of running the loops of an operation on object m
Access(h, m) ==
    IF ~Owned(h, m) /\ EntersLoop(m) THEN "use_after_free" ELSE "none"

\* the same for an operation that reads a second object o
Access2(h, m, o) ==
    IF Access(h, m) # "none" THEN Access(h, m) ELSE Access(h, o)

(* ------------------------------ actions -------------------------------- *)

\* what an operation leaves behind besides the objects and the free store
Outcome(o, e, m, t, r, f) ==
    /\ op' = o
    /\ exc' = e
    /\ msg' = m
    /\ out' = t
    /\ ret' = r
    /\ fault' = f
    /\ UNCHANGED printable

\* mat<T> x(r, c);
Construct(x, r, c) ==
    /\ ~Live(x)
    /\ FreeAddrs # {}
    /\ mats' = [mats EXCEPT ![x] = NewMat(r, c, NewAddr)]
    /\ heap' = [heap EXCEPT ![NewAddr] = NewBlock(r, c)]
    /\ Outcome("construct", "none", "", "", "none", "none")

\* mat<T> z = x;   (or mat<T> z(x);)
Copy(x, z) ==
    /\ Live(x)
    /\ ~Live(z)
    /\ mats' = [mats EXCEPT ![z] = CopyConstruct(mats[x])]
    /\ UNCHANGED heap
    /\ Outcome("copy", "none", "", "", "none", "none")

\* the scope of x ends: mat<T>::~mat
Destroy(x) ==
    /\ Live(x)
    /\ mats' = [mats EXCEPT ![x] = NoMat]
    /\ heap' = Release(heap, mats', mats[x].data)
    /\ Outcome("destroy", "none", "", "", "none",
               IF Owned(heap, mats[x]) THEN "none" ELSE "double_free")

\* x.fill(value);
Fill(x, value) ==
    /\ Live(x)
    /\ heap' = Store(heap, mats[x], FillCells(mats[x], heap[mats[x].data].cells, value))
    /\ UNCHANGED mats
    /\ Outcome("fill", "none", "", "", "none", Access(heap, mats[x]))

\* x.set(row, col, value);
Set(x, row, col, value) ==
    /\ Live(x)
    /\ UNCHANGED mats
    /\ LET e == SetError(mats[x], row, col)
       IN  IF e # ""
           THEN /\ UNCHANGED heap
                /\ Outcome("set", "invalid_argument", e, "", "none", "none")
           ELSE /\ heap' = Store(heap, mats[x],
                                 SetCells(heap[mats[x].data].cells, row, col, value))
                /\ Outcome("set", "none", "", "", "none", Access(heap, mats[x]))

\* x.print();   called from line `line` of the caller
print(x, line) ==
    /\ Live(x)
    /\ UNCHANGED <<mats, heap>>
    /\ Outcome("print", "none", "",
               PrintText(heap, mats[x], printable, CallerFile, line),
               IF PrintResult(mats[x], printable) THEN "true" ELSE "false",
               IF printable THEN Access(heap, mats[x]) ELSE "none")

\* mat<T> z = x + y;   and   mat<T> z = x - y;
Binary(name, x, y, z, cells) ==
    /\ Live(x)
    /\ Live(y)
    /\ ~Live(z)
    /\ FreeAddrs # {}
    /\ LET e == check_matrix_dimensions(mats[x].n_rows, mats[x].n_cols,
                                        mats[y].n_rows, mats[y].n_cols)
           o == NewMat(mats[x].n_rows, mats[x].n_cols, NewAddr)
       IN  IF e # ""
           THEN /\ UNCHANGED <<mats, heap>>
                /\ Outcome(name, "dimension_mismatch_error", e, "", "none", "none")
           ELSE \E elide \in BOOLEAN :
                /\ mats' = [mats EXCEPT ![z] = ReturnedMat(o, elide)]
                /\ heap' = ReturnedHeap(heap, o, cells, elide)
                /\ Outcome(name, "none", "", "", "none",
                           Access2(heap, mats[x], mats[y]))

OperatorPlus(x, y, z)  == Binary("plus", x, y, z, PlusCells(heap, mats[x], mats[y]))

OperatorMinus(x, y, z) == Binary("minus", x, y, z, MinusCells(heap, mats[x], mats[y]))

\* x += y with the loops run before the dimensions are checked
CompoundUnchecked(name, x, y, cells) ==
    /\ Live(x)
    /\ Live(y)
    /\ UNCHANGED mats
    /\ heap' = Store(heap, mats[x], cells)
    /\ LET e == check_matrix_dimensions(mats[x].n_rows, mats[x].n_cols,
                                        mats[y].n_rows, mats[y].n_cols)
       IN  IF e # ""
           THEN Outcome(name, "dimension_mismatch_error", e, "", "none", "none")
           ELSE Outcome(name, "none", "", "", "none",
                        Access2(heap, mats[x], mats[y]))

\* x += y;   and   x -= y;
Compound(name, x, y, cells) ==
    /\ Live(x)
    /\ Live(y)
    /\ UNCHANGED mats
    /\ LET e == check_matrix_dimensions(mats[x].n_rows, mats[x].n_cols,
                                        mats[y].n_rows, mats[y].n_cols)
       IN  IF e # ""
           THEN /\ UNCHANGED heap
                /\ Outcome(name, "dimension_mismatch_error", e, "", "none", "none")
           ELSE /\ heap' = Store(heap, mats[x], cells)
                /\ Outcome(name, "none", "", "", "none",
                           Access2(heap, mats[x], mats[y]))

OperatorPlusAssign(x, y)  ==
    Compound("plus_assign", x, y, PlusCells(heap, mats[x], mats[y]))

OperatorMinusAssign(x, y) ==
    Compound("minus_assign", x, y, MinusCells(heap, mats[x], mats[y]))

(* --------------- one object: construct, fill, set, print --------------- *)

\* the caller's scope before it declares a matrix
Init ==
    /\ mats = [n \in Names |-> NoMat]
    /\ heap = [p \in Addr |-> Unused]
    /\ printable \in BOOLEAN
    /\ op = "none"
    /\ exc = "none"
    /\ msg = ""
    /\ out = ""
    /\ ret = "none"
    /\ fault = "none"
    /\ steps = 0

\* an operation of a run that is explored without a budget
Free(A) == A /\ UNCHANGED steps

Next ==
    \/ \E r \in 0 .. MaxRows : \E c \in 0 .. MaxCols : Free(Construct("a", r, c))
    \/ \E v \in InputVals : Free(Fill("a", v))
    \/ \E r \in 0 .. MaxRows : \E c \in 0 .. MaxCols : \E v \in InputVals :
          Free(Set("a", r, c, v))
    \/ \E l \in CallerLines : Free(print("a", l))
    \/ Free(Destroy("a"))

Spec == Init /\ [][Next]_vars

(* ------------- two operands: arithmetic, copies, scope exits ----------- *)

\* the contents construct, fill and set can give a matrix of r rows and c
\* columns: nothing written yet, or every cell written with an input value
Contents(r, c) ==
    {Grid(f) : f \in {[ij \in Cells(r, c) |-> Undef]} \cup [Cells(r, c) -> InputVals]}

\* the caller has declared and written the operands a (at address 1) and b
\* (at address 2)
InitArith ==
    /\ \E ra \in 0 .. MaxRows : \E ca \in 0 .. MaxCols :
       \E rb \in 0 .. MaxRows : \E cb \in 0 .. MaxCols :
       \E va \in Contents(ra, ca) : \E vb \in Contents(rb, cb) :
          /\ mats = [n \in Names |->
                        IF n = "a" THEN NewMat(ra, ca, 1)
                        ELSE IF n = "b" THEN NewMat(rb, cb, 2)
                        ELSE NoMat]
          /\ heap = [p \in Addr |->
                        IF p = 1 THEN [status |-> "live", cells |-> va]
                        ELSE IF p = 2 THEN [status |-> "live", cells |-> vb]
                        ELSE Unused]
    /\ printable = TRUE
    /\ op = "none"
    /\ exc = "none"
    /\ msg = ""
    /\ out = ""
    /\ ret = "none"
    /\ fault = "none"
    /\ steps = 0

\* an operation of a run of at most MaxOps operations
Step(A) == steps < MaxOps /\ A /\ steps' = steps + 1

NextArith ==
    \/ \E x \in Names : \E y \in Names : \E z \in Results :
          Step(OperatorPlus(x, y, z))
    \/ \E x \in Names : \E y \in Names : \E z \in Results :
          Step(OperatorMinus(x, y, z))
    \/ \E x \in Names : \E y \in Names : Step(OperatorPlusAssign(x, y))
    \/ \E x \in Names : \E y \in Names : Step(OperatorMinusAssign(x, y))
    \/ \E x \in Names : \E z \in Results : Step(Copy(x, z))
    \/ \E x \in Names : Step(Destroy(x))

SpecArith == InitArith /\ [][NextArith]_vars

(* ----------------------------- properties ------------------------------ *)

\* the cells an observer reads from object m
CellsOf(h, m) ==
    Grid([ij \in Cells(m.n_rows, m.n_cols) |-> CellAt(h, m, ij[1], ij[2])])

\* object m owns its storage and every cell of it has been written
Defined(h, m) ==
    /\ Owned(h, m)
    /\ \A ij \in Cells(m.n_rows, m.n_cols) : CellAt(h, m, ij[1], ij[2]) # Undef

\* "RxC"
ShapeText(m) == NatToString(m.n_rows) \o "x" \o NatToString(m.n_cols)

Rows == 0 .. MaxRows
Cols == 0 .. MaxCols

\* C1: for every shape, zero rows or zero columns included, and every value
\* v, fill(v) throws nothing and leaves every cell (i, j) of the matrix equal
\* to v.
C1_FillSetsEveryCell ==
    [][\A v \in InputVals :
          Fill("a", v) =>
             /\ exc' = "none"
             /\ fault' = "none"
             /\ mats'["a"] = mats["a"]
             /\ \A i \in Rows : \A j \in Cols :
                   (i < mats["a"].n_rows /\ j < mats["a"].n_cols)
                      => CellAt(heap', mats'["a"], i, j) = v]_vars

\* fill has just run on a matrix of the largest shape
C1_Witness ==
    /\ op = "fill"
    /\ Shape(mats["a"]) = <<MaxRows, MaxCols>>
    /\ \A ij \in Cells(MaxRows, MaxCols) : CellAt(heap, mats["a"], ij[1], ij[2]) = 2

\* C4: set(r, c, v) with r < n_rows and c < n_cols throws nothing, makes cell
\* (r, c) equal to v and leaves every other cell as it was; with r >= n_rows
\* or c >= n_cols it throws std::invalid_argument and leaves every cell as it
\* was.
C4_SetChecksBounds ==
    [][\A r \in Rows : \A c \in Cols : \A v \in InputVals :
          Set("a", r, c, v) =>
             /\ mats' = mats
             /\ IF r < mats["a"].n_rows /\ c < mats["a"].n_cols
                THEN /\ exc' = "none"
                     /\ CellAt(heap', mats'["a"], r, c) = v
                     /\ \A ij \in Cells(mats["a"].n_rows, mats["a"].n_cols) :
                           ij # <<r, c>> =>
                              CellAt(heap', mats'["a"], ij[1], ij[2])
                                 = CellAt(heap, mats["a"], ij[1], ij[2])
                ELSE /\ exc' = "invalid_argument"
                     /\ heap' = heap]_vars

\* set has just thrown on a matrix that a fill and an earlier set in bounds
\* left with cells of both input values
C4_Witness ==
    /\ op = "set"
    /\ exc = "invalid_argument"
    /\ Defined(heap, mats["a"])
    /\ \E ij \in Cells(mats["a"].n_rows, mats["a"].n_cols) :
       \E kl \in Cells(mats["a"].n_rows, mats["a"].n_cols) :
          CellAt(heap, mats["a"], ij[1], ij[2]) # CellAt(heap, mats["a"], kl[1], kl[2])

\* C6: for every shape, zero rows or zero columns included: print on a
\* matrix of a printable element type returns true; print on a matrix of an
\* element type that is not printable returns false and writes the
\* diagnostic and nothing else.
C6_PrintReportsCapability ==
    op = "print" =>
       /\ printable => ret = "true"
       /\ ~printable =>
             /\ ret = "false"
             /\ \E l \in CallerLines : out = Diagnostic(CallerFile, l)

\* the line of row i from column j on: each value followed by one space, then
\* the newline
RECURSIVE RowLine(_, _, _, _)
RowLine(h, m, i, j) ==
    IF j >= m.n_cols THEN "\n"
    ELSE ValToText(CellAt(h, m, i, j)) \o " " \o RowLine(h, m, i, j + 1)

\* the lines of the rows i, i + 1, ... in row order
RECURSIVE RowLines(_, _, _)
RowLines(h, m, i) ==
    IF i >= m.n_rows THEN ""
    ELSE RowLine(h, m, i, 0) \o RowLines(h, m, i + 1)

\* C10: print on a matrix of a printable element type writes exactly n_rows
\* lines, one per row in row order, each holding the row's n_cols values in
\* column order and ended by a newline, for every shape, n_cols = 0 with
\* n_rows > 0 included.
C10_PrintOneLinePerRow ==
    (op = "print" /\ printable) =>
       /\ CountNewlines(out) = mats["a"].n_rows
       /\ out = RowLines(heap, mats["a"], 0)

\* with C6, what the code does: print on a matrix of an element type that is
\* not printable returns false and writes the diagnostic exactly when the
\* matrix has a cell; with no cell it writes nothing and returns true.
PrintSkipsWhenItHasACell ==
    (op = "print" /\ ~printable) =>
       IF EntersLoop(mats["a"])
       THEN ret = "false" /\ \E l \in CallerLines : out = Diagnostic(CallerFile, l)
       ELSE ret = "true" /\ out = ""

\* with C10, what the code does: one line per row when n_cols > 0, and
\* nothing at all when n_cols = 0.
PrintOneLinePerRowWithColumns ==
    (op = "print" /\ printable) =>
       IF mats["a"].n_cols > 0
       THEN /\ CountNewlines(out) = mats["a"].n_rows
            /\ out = RowLines(heap, mats["a"], 0)
       ELSE out = ""

\* the two objects have the same shape and all their cells have been written
Addable(x, y) ==
    /\ Live(x)
    /\ Live(y)
    /\ Shape(mats[x]) = Shape(mats[y])
    /\ Defined(heap, mats[x])
    /\ Defined(heap, mats[y])

\* C2: for matrices x, y of equal dimensions, z = x + y has the dimensions of
\* x and z(i,j) = x(i,j) + y(i,j) for all i, j; and x += y leaves x holding
\* those same sums.
C2_AdditionIsElementwise ==
    [][/\ \A x \in Names : \A y \in Names : \A z \in Results :
             (Addable(x, y) /\ OperatorPlus(x, y, z)) =>
                /\ exc' = "none"
                /\ Shape(mats'[z]) = Shape(mats[x])
                /\ \A ij \in Cells(mats[x].n_rows, mats[x].n_cols) :
                      CellAt(heap', mats'[z], ij[1], ij[2])
                         = Wrap(CellAt(heap, mats[x], ij[1], ij[2])
                                + CellAt(heap, mats[y], ij[1], ij[2]))
       /\ \A x \in Names : \A y \in Names :
             (Addable(x, y) /\ OperatorPlusAssign(x, y)) =>
                /\ exc' = "none"
                /\ mats' = mats
                /\ \A ij \in Cells(mats[x].n_rows, mats[x].n_cols) :
                      CellAt(heap', mats'[x], ij[1], ij[2])
                         = Wrap(CellAt(heap, mats[x], ij[1], ij[2])
                                + CellAt(heap, mats[y], ij[1], ij[2]))]_vars

\* with C2, what the code does: the sums are in z whenever z owns its
\* storage after z = x + y, that is, whenever the copy was elided.
ElidedAdditionIsElementwise ==
    [][\A x \in Names : \A y \in Names : \A z \in Results :
          (Addable(x, y) /\ OperatorPlus(x, y, z) /\ Owned(heap', mats'[z])) =>
             \A ij \in Cells(mats[x].n_rows, mats[x].n_cols) :
                CellAt(heap', mats'[z], ij[1], ij[2])
                   = Wrap(CellAt(heap, mats[x], ij[1], ij[2])
                          + CellAt(heap, mats[y], ij[1], ij[2]))]_vars

\* the last operation threw dimension_mismatch_error and its message holds
\* the shape of x and, after it, the shape of y
MismatchReported(x, y) ==
    /\ exc' = "dimension_mismatch_error"
    /\ mats' = mats
    /\ ContainsInOrder(msg', ShapeText(mats[x]), ShapeText(mats[y]))

\* C3: when the row counts or the column counts of x and y differ, each of
\* x + y, x += y, x - y and x -= y throws dimension_mismatch_error (never
\* std::invalid_argument, and no result is made), and the message holds the
\* shape of x and after it the shape of y, as "RxC".
C3_MismatchThrows ==
    [][\A x \in Names : \A y \in Names :
          (/\ Live(x) /\ Live(y)
           /\ Shape(mats[x]) # Shape(mats[y])
           /\ \/ \E z \in Results : OperatorPlus(x, y, z) \/ OperatorMinus(x, y, z)
              \/ OperatorPlusAssign(x, y)
              \/ OperatorMinusAssign(x, y))
             => MismatchReported(x, y)]_vars

\* a subtraction of a 2x1 and a 1x2 matrix has just thrown
C3_Witness ==
    /\ op \in {"minus", "minus_assign"}
    /\ exc = "dimension_mismatch_error"
    /\ Contains(msg, "2x1")
    /\ Contains(msg, "1x2")

\* the message of the specification for the operation named word
ExpectedMessage(word, m, o) ==
    "Cannot perform " \o word \o " between a " \o ShapeText(m)
    \o " matrix and a " \o ShapeText(o) \o " matrix."

Mismatched(x, y) == Live(x) /\ Live(y) /\ Shape(mats[x]) # Shape(mats[y])

\* C7: on mismatched dimensions x + y and x += y report "Cannot perform
\* addition between a R1xC1 matrix and a R2xC2 matrix.", and x - y and x -= y
\* report the analogous message naming subtraction.
C7_MessageNamesOperation ==
    [][\A x \in Names : \A y \in Names :
          /\ (Mismatched(x, y)
              /\ ((\E z \in Results : OperatorPlus(x, y, z))
                  \/ OperatorPlusAssign(x, y)))
                => StartsWith(msg', ExpectedMessage("addition", mats[x], mats[y]))
          /\ (Mismatched(x, y)
              /\ ((\E z \in Results : OperatorMinus(x, y, z))
                  \/ OperatorMinusAssign(x, y)))
                => StartsWith(msg', ExpectedMessage("subtraction", mats[x], mats[y]))]_vars

\* C5: subtraction undoes addition: after z = x + y, z - y has the cells of
\* x; and after x += y, x -= y gives x the cells it had (x and y distinct
\* objects of equal shape over the wrapping integer type T).
C5_SubtractionUndoesAddition ==
    [][/\ \A x \in Names : \A y \in Names : \A z \in Results :
             (Addable(x, y) /\ OperatorPlus(x, y, z)) =>
                MinusCells(heap', mats'[z], mats'[y]) = CellsOf(heap, mats[x])
       /\ \A x \in Names : \A y \in Names :
             (/\ Addable(x, y)
              /\ mats[x].data # mats[y].data
              /\ OperatorPlusAssign(x, y)) =>
                MinusCells(heap', mats'[x], mats'[y]) = CellsOf(heap, mats[x])]_vars

\* with C5, what the code does: for distinct objects x and y, x -= y after
\* x += y gives x the cells it had, sums that wrap around included.
CompoundSubtractionUndoesAddition ==
    [][\A x \in Names : \A y \in Names :
          (/\ Addable(x, y)
           /\ mats[x].data # mats[y].data
           /\ OperatorPlusAssign(x, y)) =>
             MinusCells(heap', mats'[x], mats'[y]) = CellsOf(heap, mats[x])]_vars

\* with C7, what the code does: all four operators report the addition
\* message, followed by the place of the throw.
EveryOperatorReportsAddition ==
    [][\A x \in Names : \A y \in Names :
          (Mismatched(x, y)
           /\ ((\E z \in Results : OperatorPlus(x, y, z) \/ OperatorMinus(x, y, z))
               \/ OperatorPlusAssign(x, y)
               \/ OperatorMinusAssign(x, y)))
             => msg' = ExpectedMessage("addition", mats[x], mats[y])
                       \o " at " \o ThrowFile \o ":" \o NatToString(ThrowLine) \o "."]_vars

\* C8: every object owns its storage alone: no two live objects hold the
\* same storage, no live object holds released storage, and no storage is
\* released twice or used after its release.
C8_ExclusiveOwnership ==
    /\ \A x \in Names : \A y \in Names :
          (x # y /\ Live(x) /\ Live(y)) => mats[x].data # mats[y].data
    /\ \A x \in Names : Live(x) => Owned(heap, mats[x])
    /\ fault = "none"

\* C9: a failed x += y or x -= y leaves every cell of x and of y as it was,
\* and x + y and x - y, failed or not, leave the dimensions and every cell of
\* x and of y as they were.
C9_OperandsKept ==
    [][/\ \A x \in Names : \A y \in Names :
             (Mismatched(x, y)
              /\ (OperatorPlusAssign(x, y) \/ OperatorMinusAssign(x, y)))
                => (mats' = mats /\ heap' = heap)
       /\ \A x \in Names : \A y \in Names : \A z \in Results :
             (OperatorPlus(x, y, z) \/ OperatorMinus(x, y, z)) =>
                /\ mats'[x] = mats[x]
                /\ mats'[y] = mats[y]
                /\ CellsOf(heap', mats'[x]) = CellsOf(heap, mats[x])
                /\ CellsOf(heap', mats'[y]) = CellsOf(heap, mats[y])]_vars

\* x -= y has just failed on two written operands of different shapes
C9_Witness ==
    /\ op = "minus_assign"
    /\ exc = "dimension_mismatch_error"
    /\ Defined(heap, mats["a"])
    /\ Defined(heap, mats["b"])
    /\ Shape(mats["a"]) = <<MaxRows, MaxCols>>
    /\ Shape(mats["b"]) = <<1, MaxCols>>

====
